---- MODULE Spec2Model ----
(***************************************************************************)
(* A model of the sitemap crawler worker: the bounded-concurrency executor *)
(* pLimit, the batch crawler crawlBatch, the robots.txt interpreter        *)
(* allowedByRobots (src/src/crawler.ts) and the recursive sitemap          *)
(* resolution (src/src/sitemap.ts).                                        *)
(*                                                                         *)
(* JavaScript's run-to-completion scheduling is modelled explicitly: the   *)
(* synchronous part of pLimit runs while pc = "loop" and nothing else can  *)
(* run then; promise reactions are jobs of a FIFO microtask queue (jobs),  *)
(* queued in the order the reactions were registered on the promise.       *)
(***************************************************************************)
EXTENDS Integers, Sequences, FiniteSets, TLC

\* ---------------------------------------------------------------- bounds
MaxItems == 4
MaxLimit == 3
MaxUrls == 2
MaxConcurrency == 2
MaxLines == 3
MaxChildren == 2
\* The depth a traversal guard would allow (spec 4.2: "e.g. 10"); the model
\* follows a resolution for two fetches more
GuardDepth == 10
MaxFetches == GuardDepth + 2

VARIABLES
    items,       \* the items argument of pLimit
    limit,       \* the limit argument of pLimit, a JavaScript number
    pc,          \* where the pLimit call is: loop | awaitRace | awaitAll | resolved | rejected
    idx,         \* index of the next item the for loop takes
    startLog,    \* the items fn has been called for, in call order
    executing,   \* the Set `executing`, in insertion order; a promise is named by its item's index
    pstate,      \* state of the promise fn(item) returned: unstarted | pending | fulfilled | rejected
    reactions,   \* reactions registered on each pending task promise, in registration order
    jobs,        \* the microtask queue
    agg,         \* the Promise.race / Promise.all promise pLimit currently awaits
    ret          \* what the caller awaiting pLimit has got: pending | returned | threw, and the value

plimitVars == <<items, limit, pc, idx, startLog, executing, pstate, reactions, jobs, agg, ret>>

VARIABLES
    userAgent,   \* the userAgent argument of crawlBatch
    concurrency, \* the concurrency argument of crawlBatch, a JavaScript number
    tasks,       \* per item of crawlBatch: where its task body is and what it has done
    out          \* the array `out` of crawlBatch

crawlVars == <<userAgent, concurrency, tasks, out>>

VARIABLES
    rcall,       \* the arguments of one allowedByRobots call: url, userAgent
    rsite,       \* the robots.txt the origin serves: its lines and its line separator
    rphase,      \* called | fetching | returned
    rres,        \* the response the robots.txt fetch got
    rret         \* the outcome of the call: a value returned or an exception

robotsVars == <<rcall, rsite, rphase, rres, rret>>

VARIABLES
    web,         \* the sitemap document each sitemap URL serves
    spc,         \* where the resolution is: start | running | done | failed
    sstack,      \* the IndexParser.extractUrls calls in progress, innermost last
    fetchLog,    \* the fetchText calls made, in order, each with whether the response was 2xx
    sresult      \* the URL list the resolution returned

sitemapVars == <<web, spc, sstack, fetchLog, sresult>>

VARIABLES
    qurls,       \* the urls argument of QueueEnqueuer.enqueueMany
    qsize,       \* chunkSize
    qi,          \* the loop variable i
    qsent,       \* the batches given to queue.sendBatch so far, in call order
    qacked,      \* how many sendBatch promises have resolved
    qpc,         \* idle | loop | sending | returned | threw
    qret         \* the number enqueueMany returned

queueVars == <<qurls, qsize, qi, qsent, qacked, qpc, qret>>

VARIABLES
    hpc,         \* the /crawl handler: start | limit | crawling | done | failed
    hdiscovered, \* urls.length: how many URLs the resolution returned
    hbatch,      \* batch.length
    hcrawled,    \* how many URLs of the batch crawlBatch has gone through
    hfetches     \* the outbound fetches issued so far in this invocation

runVars == <<hpc, hdiscovered, hbatch, hcrawled, hfetches>>

VARIABLES
    gurl,        \* the target of one fetchText call: its path, query and fragment parts
    gres,        \* the response fetch gave
    gpc,         \* idle | called | returned
    gret         \* the outcome of the call, and which way the body was read

gzVars == <<gurl, gres, gpc, gret>>

restVars == <<queueVars, runVars, gzVars>>

VARIABLES
    denv,        \* the MAX_URLS_PER_RUN setting of one /crawl invocation ("" when unset)
    dqueue,      \* whether CRAWL_QUEUE is bound
    durls,       \* urls: the list the resolution returned
    dbatch,      \* batch
    dsink,       \* the URLs handed to crawlBatch or to queue.sendBatch
    dresp,       \* the discovered and dispatched counts of the response
    dpc          \* idle | resolved | dispatching | responded | failed

dispatchVars == <<denv, dqueue, durls, dbatch, dsink, dresp, dpc>>

VARIABLES
    hung,        \* the item whose task never completes (0: none)
    cacks,       \* queue consumer: how many times each message of the batch was acknowledged
    cpos,        \* queue consumer: the next message of the ack loop
    cpc          \* queue consumer: idle | crawling | acking | returned

consumerVars == <<hung, cacks, cpos, cpc>>

moreVars == <<dispatchVars, consumerVars>>

vars == <<plimitVars, crawlVars, robotsVars, sitemapVars, restVars, moreVars>>

IdleDispatch ==
    /\ denv = <<>>
    /\ dqueue = FALSE
    /\ durls = <<>>
    /\ dbatch = <<>>
    /\ dsink = <<>>
    /\ dresp = [discovered |-> 0, dispatched |-> 0]
    /\ dpc = "idle"

IdleConsumer ==
    /\ hung = 0
    /\ cacks = <<>>
    /\ cpos = 0
    /\ cpc = "idle"

IdleMore == IdleDispatch /\ IdleConsumer

IdleQueue ==
    /\ qurls = <<>>
    /\ qsize = 0
    /\ qi = 0
    /\ qsent = <<>>
    /\ qacked = 0
    /\ qpc = "idle"
    /\ qret = 0

IdleRun ==
    /\ hpc = "idle"
    /\ hdiscovered = 0
    /\ hbatch = 0
    /\ hcrawled = 0
    /\ hfetches = 0

IdleGz ==
    /\ gurl = <<>>
    /\ gres = <<>>
    /\ gpc = "idle"
    /\ gret = <<>>

IdleRest == IdleQueue /\ IdleRun /\ IdleGz

\* ------------------------------------------------- JavaScript numbers
Num(n) == [nan |-> FALSE, v |-> n]
NaN == [nan |-> TRUE, v |-> 0]

\* a >= b on JavaScript numbers: every comparison with NaN is false
GreaterEq(a, b) == ~a.nan /\ ~b.nan /\ a.v >= b.v

\* --------------------------------------------------------- sequences
RECURSIVE SeqRemove(_, _)
SeqRemove(s, x) ==
    IF s = <<>> THEN <<>>
    ELSE IF Head(s) = x THEN SeqRemove(Tail(s), x)
    ELSE <<Head(s)>> \o SeqRemove(Tail(s), x)

Range(s) == {s[i] : i \in 1..Len(s)}

\* ------------------------------------------------------------ promises
Settled(st) == st \in {"fulfilled", "rejected"}

Reaction(kind, id) == [kind |-> kind, id |-> id]
Job(kind, id, task, outcome) == [kind |-> kind, id |-> id, task |-> task, outcome |-> outcome]

\* The jobs queued when promise `task` settles with `outcome`: one per
\* registered reaction, in registration order.
ReactionJobs(rs, task, outcome) ==
    [k \in 1..Len(rs) |-> Job(rs[k].kind, rs[k].id, task, outcome)]

\* p.then(...) for every p of `members` in order (what Promise.race and
\* Promise.all do with their iterable): a pending promise gets the reaction
\* registered, a settled one has the job queued at once.
RECURSIVE RegisterAll(_, _, _, _, _)
RegisterAll(members, ps, rs, q, r) ==
    IF members = <<>> THEN [reactions |-> rs, jobs |-> q]
    ELSE LET m == Head(members) IN
         IF ps[m] = "pending"
         THEN RegisterAll(Tail(members), ps, [rs EXCEPT ![m] = Append(@, r)], q, r)
         ELSE RegisterAll(Tail(members), ps, rs, Append(q, Job(r.kind, r.id, m, ps[m])), r)

NoAgg == [kind |-> "none", id |-> 0, state |-> "none", remaining |-> 0]
\* ------------------------------------------------ strings (sequences of characters)
UpperChars == <<"A","B","C","D","E","F","G","H","I","J","K","L","M",
                "N","O","P","Q","R","S","T","U","V","W","X","Y","Z">>
LowerChars == <<"a","b","c","d","e","f","g","h","i","j","k","l","m",
                "n","o","p","q","r","s","t","u","v","w","x","y","z">>

ToLowerChar(c) ==
    IF \E k \in 1..Len(UpperChars) : UpperChars[k] = c
    THEN LowerChars[CHOOSE k \in 1..Len(UpperChars) : UpperChars[k] = c]
    ELSE c

\* String.prototype.toLowerCase
ToLowerCase(s) == [k \in 1..Len(s) |-> ToLowerChar(s[k])]

IsSpace(c) == c \in {" ", "\t", "\r", "\n"}

RECURSIVE TrimStart(_)
TrimStart(s) == IF s # <<>> /\ IsSpace(Head(s)) THEN TrimStart(Tail(s)) ELSE s

RECURSIVE TrimEnd(_)
TrimEnd(s) ==
    IF s # <<>> /\ IsSpace(s[Len(s)]) THEN TrimEnd(SubSeq(s, 1, Len(s) - 1)) ELSE s

\* String.prototype.trim
Trim(s) == TrimEnd(TrimStart(s))

\* String.prototype.startsWith
StartsWith(s, prefix) ==
    Len(prefix) <= Len(s) /\ SubSeq(s, 1, Len(prefix)) = prefix

\* String.prototype.indexOf: the 0-based position of the first occurrence, or -1
IndexOf(s, sub) ==
    LET hits == {k \in 0..(Len(s) - Len(sub)) : SubSeq(s, k + 1, k + Len(sub)) = sub}
    IN IF hits = {} THEN -1 ELSE CHOOSE k \in hits : \A h \in hits : k <= h

\* String.prototype.slice(from) and slice(from, to) for 0 <= from <= to
SliceFrom(s, from) == SubSeq(s, from + 1, Len(s))
Slice(s, from, to) == SubSeq(s, from + 1, to)

\* text.split(/\r?\n/): a line ends at "\n", and one "\r" right before it
\* belongs to the separator
RECURSIVE SplitLinesFrom(_, _)
SplitLinesFrom(text, cur) ==
    IF text = <<>> THEN <<cur>>
    ELSE IF Head(text) = "\n"
         THEN <<(IF cur # <<>> /\ cur[Len(cur)] = "\r"
                 THEN SubSeq(cur, 1, Len(cur) - 1) ELSE cur)>>
              \o SplitLinesFrom(Tail(text), <<>>)
         ELSE SplitLinesFrom(Tail(text), Append(cur, Head(text)))

SplitLines(text) == SplitLinesFrom(text, <<>>)

\* ------------------------------------------------------------------ URLs
\* new URL(url) for the URLs of the model, scheme://host[/path][?query][#fragment]:
\* a string without "://" or with an empty host does not parse (the
\* constructor throws); pathname excludes query and fragment and is "/" when
\* the path is empty.
FirstOf(s, chars) ==
    LET hits == {k \in 1..Len(s) : s[k] \in chars}
    IN IF hits = {} THEN Len(s) + 1 ELSE CHOOSE k \in hits : \A h \in hits : k <= h

ParseURL(url) ==
    LET sep == IndexOf(url, <<":", "/", "/">>) IN
    IF sep <= 0 THEN [ok |-> FALSE, origin |-> <<>>, pathname |-> <<>>]
    ELSE LET rest == SliceFrom(url, sep + 3)
             hostEnd == FirstOf(rest, {"/", "?", "#"})
             host == SubSeq(rest, 1, hostEnd - 1)
             tail == SubSeq(rest, hostEnd, Len(rest))
             path == SubSeq(tail, 1, FirstOf(tail, {"?", "#"}) - 1)
         IN IF host = <<>> THEN [ok |-> FALSE, origin |-> <<>>, pathname |-> <<>>]
            ELSE [ok |-> TRUE,
                  origin |-> Slice(url, 0, sep + 3) \o host,
                  pathname |-> IF path = <<>> THEN <<"/">> ELSE path]

\* Response.ok
ResOk(status) == status >= 200 /\ status <= 299

\* --------------------------------------------------------- allowedByRobots
\* Mutant of RobotsLine: a User-agent line that does not apply leaves an open
\* block open
RobotsLineSticky(st, line, ua) ==
    IF line = <<>> \/ StartsWith(line, <<"#">>) THEN st
    ELSE LET i == IndexOf(line, <<":">>) IN
         IF i = -1 THEN st
         ELSE LET k == ToLowerCase(Trim(Slice(line, 0, i)))
                  v == Trim(SliceFrom(line, i + 1))
              IN IF k = <<"u","s","e","r","-","a","g","e","n","t">>
                 THEN [st EXCEPT !.inStar =
                          (@ \/ v = <<"*">> \/ ToLowerCase(v) = ToLowerCase(ua))]
                 ELSE IF st.inStar /\ k = <<"d","i","s","a","l","l","o","w">> /\ v # <<>>
                      THEN [st EXCEPT !.disallows = Append(@, v)]
                      ELSE st

\* One step of the for loop over the lines: st = [inStar, disallows]
RobotsLine(st, line, ua) ==
    IF line = <<>> \/ StartsWith(line, <<"#">>) THEN st
    ELSE LET i == IndexOf(line, <<":">>) IN
         IF i = -1 THEN st
         ELSE LET k == ToLowerCase(Trim(Slice(line, 0, i)))
                  v == Trim(SliceFrom(line, i + 1))
              IN IF k = <<"u","s","e","r","-","a","g","e","n","t">>
                 THEN [st EXCEPT !.inStar =
                          (v = <<"*">> \/ ToLowerCase(v) = ToLowerCase(ua))]
                 ELSE IF st.inStar /\ k = <<"d","i","s","a","l","l","o","w">>
                      THEN IF v # <<>>
                           THEN [st EXCEPT !.disallows = Append(@, v)]
                           ELSE st
                      ELSE st

RECURSIVE RobotsScan(_, _, _)
RobotsScan(st, lines, ua) ==
    IF lines = <<>> THEN st
    ELSE RobotsScan(RobotsLine(st, Head(lines), ua), Tail(lines), ua)

\* const lines = text.split(/\r?\n/).map((l) => l.trim()), then the loop
RobotsRules(text, ua) ==
    LET raw == SplitLines(text)
        lines == [k \in 1..Len(raw) |-> Trim(raw[k])]
    IN RobotsScan([inStar |-> FALSE, disallows |-> <<>>], lines, ua).disallows

\* Mutant of RuleBlocks: the rule "/" blocks too
RuleBlocksRootToo(rule, pathname) == StartsWith(pathname, rule)

\* disallows.some((rule) => rule !== "/" && u.pathname.startsWith(rule))
RuleBlocks(rule, pathname) == rule # <<"/">> /\ StartsWith(pathname, rule)

\* An outcome of a function body: a value returned or an exception thrown
Returns(v) == [threw |-> FALSE, value |-> v]
Throws == [threw |-> TRUE, value |-> FALSE]

\* A response of fetch(): the call throws (transport failure), or yields a
\* status and a body whose read res.text() may fail
Response(threw, status, text, bodyFails) ==
    [threw |-> threw, status |-> status, text |-> text, bodyFails |-> bodyFails]

\* The body of the try block, given the response the robots.txt fetch gets
RobotsTry(url, ua, res) ==
    LET u == ParseURL(url) IN
    IF ~u.ok THEN Throws
    ELSE IF res.threw THEN Throws
    ELSE IF ~ResOk(res.status) THEN Returns(TRUE)
    ELSE IF res.bodyFails THEN Throws
    ELSE LET disallows == RobotsRules(res.text, ua)
         IN Returns(~(\E r \in 1..Len(disallows) : RuleBlocks(disallows[r], u.pathname)))

\* try { ... } catch { return true; }
AllowedByRobots(url, ua, res) ==
    LET body == RobotsTry(url, ua, res)
    IN IF body.threw THEN Returns(TRUE) ELSE body

\* The request allowedByRobots issues: none when new URL(url) throws
RobotsUrl(url) == ParseURL(url).origin \o <<"/","r","o","b","o","t","s",".","t","x","t">>
\* ---------------------------------------------------- the call fn(item)
\* A task given to pLimit directly: fn(item) returns a promise that is
\* pending, or already settled
StartAny(i) ==
    /\ \E st \in {"pending", "fulfilled", "rejected"} : pstate' = [pstate EXCEPT ![i] = st]
    /\ UNCHANGED crawlVars

\* Mutant of StartCrawl: the robots.txt of an origin is fetched once, a later
\* element of the same origin goes without a request
StartCrawlCached(i) ==
    /\ pstate' = [pstate EXCEPT ![i] = "pending"]
    /\ tasks' = [tasks EXCEPT ![i] =
                   IF /\ ParseURL(items[i]).ok
                      /\ \A j \in 1..(i - 1) :
                             ParseURL(items[j]).origin # ParseURL(items[i]).origin
                   THEN [@ EXCEPT !.phase = "robots", !.net = Append(@, "robots")]
                   ELSE [@ EXCEPT !.phase = "checked", !.robots = "nourl"]]
    /\ UNCHANGED <<userAgent, concurrency, out>>

\* The synchronous part of the task body: allowedByRobots runs up to its fetch,
\* or, when new URL(url) throws, returns true without one. The body's promise
\* is pending either way: the body awaits.
StartCrawl(i) ==
    /\ pstate' = [pstate EXCEPT ![i] = "pending"]
    /\ tasks' = [tasks EXCEPT ![i] =
                   IF ParseURL(items[i]).ok
                   THEN [@ EXCEPT !.phase = "robots", !.net = Append(@, "robots")]
                   ELSE [@ EXCEPT !.phase = "checked", !.robots = "nourl"]]
    /\ UNCHANGED <<userAgent, concurrency, out>>

\* fn(items[i]), for the fn of the caller: crawlBatch's task body, or any task
CallFn(fn, i) == IF fn = "crawlBatch" THEN StartCrawl(i) ELSE StartAny(i)

\* ------------------------------------------------------------------ pLimit
\* Mutant of AtLimit: the comparison is > instead of >=
AtLimitStrict(size, lim) == ~lim.nan /\ size > lim.v

\* if (executing.size >= limit)
AtLimit(size, lim) == GreaterEq(Num(size), lim)

\* One pass of the for loop, up to the await or the next pass. Start(i) is the
\* synchronous part of fn(items[i]); it sets pstate'[i].
\*   const p = fn(item); executing.add(p); p.finally(() => executing.delete(p));
\*   if (executing.size >= limit) await Promise.race(executing);
PLimitIter(fn) ==
    /\ pc = "loop"
    /\ idx <= Len(items)
    /\ CallFn(fn, idx)
    /\ LET exec == Append(executing, idx)
           fin == Reaction("finally", 0)
           \* p.finally(...): registered, or queued at once when p is settled
           rs1 == IF pstate'[idx] = "pending"
                  THEN [reactions EXCEPT ![idx] = Append(@, fin)] ELSE reactions
           q1 == IF pstate'[idx] = "pending"
                 THEN jobs ELSE Append(jobs, Job("finally", 0, idx, pstate'[idx]))
           reg == RegisterAll(exec, pstate', rs1, q1, Reaction("race", idx))
       IN /\ executing' = exec
          /\ IF AtLimit(Len(exec), limit)
             THEN /\ reactions' = reg.reactions
                  /\ jobs' = reg.jobs
                  /\ agg' = [kind |-> "race", id |-> idx, state |-> "pending", remaining |-> 0]
                  /\ pc' = "awaitRace"
             ELSE /\ reactions' = rs1
                  /\ jobs' = q1
                  /\ agg' = agg
                  /\ pc' = "loop"
    /\ idx' = idx + 1
    /\ startLog' = Append(startLog, idx)
    /\ UNCHANGED <<items, limit, ret>>

\* await Promise.all(executing), after the loop
PLimitAll ==
    /\ pc = "loop"
    /\ idx > Len(items)
    /\ LET reg == RegisterAll(executing, pstate, reactions, jobs, Reaction("all", 0))
       IN IF executing = <<>>
          THEN /\ agg' = [kind |-> "all", id |-> 0, state |-> "fulfilled", remaining |-> 0]
               /\ jobs' = Append(jobs, Job("resume", 0, 0, "fulfilled"))
               /\ reactions' = reactions
          ELSE /\ agg' = [kind |-> "all", id |-> 0, state |-> "pending",
                          remaining |-> Len(executing)]
               /\ jobs' = reg.jobs
               /\ reactions' = reg.reactions
    /\ pc' = "awaitAll"
    /\ UNCHANGED <<items, limit, startLog, idx, executing, pstate, ret>>

\* Microtasks run only when no synchronous code is running
CanRunJob(kind) == pc # "loop" /\ jobs # <<>> /\ Head(jobs).kind = kind

\* () => executing.delete(p)
RunFinally ==
    /\ CanRunJob("finally")
    /\ executing' = SeqRemove(executing, Head(jobs).task)
    /\ jobs' = Tail(jobs)
    /\ UNCHANGED <<items, limit, startLog, pc, idx, pstate, reactions, agg, ret>>

\* The reaction Promise.race put on a member: the first one to run settles the race
RunRace ==
    /\ CanRunJob("race")
    /\ LET j == Head(jobs) IN
       IF agg.kind = "race" /\ agg.id = j.id /\ agg.state = "pending"
       THEN /\ agg' = [agg EXCEPT !.state = j.outcome]
            /\ jobs' = Append(Tail(jobs), Job("resume", 0, 0, j.outcome))
       ELSE /\ agg' = agg
            /\ jobs' = Tail(jobs)
    /\ UNCHANGED <<items, limit, startLog, pc, idx, executing, pstate, reactions, ret>>

\* The reaction Promise.all put on a member: a rejection rejects the whole,
\* the last fulfilment fulfils it
RunAll ==
    /\ CanRunJob("all")
    /\ LET j == Head(jobs) IN
       IF agg.kind = "all" /\ agg.state = "pending"
       THEN IF j.outcome = "rejected"
            THEN /\ agg' = [agg EXCEPT !.state = "rejected"]
                 /\ jobs' = Append(Tail(jobs), Job("resume", 0, 0, "rejected"))
            ELSE IF agg.remaining = 1
                 THEN /\ agg' = [agg EXCEPT !.state = "fulfilled", !.remaining = 0]
                      /\ jobs' = Append(Tail(jobs), Job("resume", 0, 0, "fulfilled"))
                 ELSE /\ agg' = [agg EXCEPT !.remaining = @ - 1]
                      /\ jobs' = Tail(jobs)
       ELSE /\ agg' = agg
            /\ jobs' = Tail(jobs)
    /\ UNCHANGED <<items, limit, startLog, pc, idx, executing, pstate, reactions, ret>>

\* pLimit resumes after its await: a rejected promise makes the await throw,
\* which rejects pLimit's own promise; the caller's await reacts to that
RunResume ==
    /\ CanRunJob("resume")
    /\ LET j == Head(jobs) IN
       IF j.outcome = "rejected"
       THEN /\ pc' = "rejected"
            /\ jobs' = Append(Tail(jobs), Job("caller", 0, 0, "rejected"))
       ELSE IF pc = "awaitRace"
            THEN /\ pc' = "loop"
                 /\ jobs' = Tail(jobs)
            ELSE /\ pc' = "resolved"
                 /\ jobs' = Append(Tail(jobs), Job("caller", 0, 0, "fulfilled"))
    /\ UNCHANGED <<items, limit, startLog, idx, executing, pstate, reactions, agg, ret>>

\* The caller resumes after `await pLimit(...)`: crawlBatch returns out, or
\* fails when pLimit failed
RunCaller ==
    /\ CanRunJob("caller")
    /\ ret' = IF Head(jobs).outcome = "rejected"
              THEN [state |-> "threw", value |-> <<>>]
              ELSE [state |-> "returned", value |-> out]
    /\ jobs' = Tail(jobs)
    /\ UNCHANGED <<items, limit, startLog, pc, idx, executing, pstate, reactions, agg>>

RunJob == RunFinally \/ RunRace \/ RunAll \/ RunResume \/ RunCaller

\* The promise of task i settles: its reactions are queued in registration order
Settle(i, outcome) ==
    /\ pstate' = [pstate EXCEPT ![i] = outcome]
    /\ jobs' = jobs \o ReactionJobs(reactions[i], i, outcome)
    /\ reactions' = [reactions EXCEPT ![i] = <<>>]

\* ---------------------------------------------- pLimit with arbitrary tasks
\* A pending task completes or fails, at any point between two jobs
TaskSettles ==
    /\ pc # "loop"
    /\ \E i \in 1..Len(items) : \E outcome \in {"fulfilled", "rejected"} :
          /\ pstate[i] = "pending"
          /\ Settle(i, outcome)
    /\ UNCHANGED <<items, limit, startLog, pc, idx, executing, agg, ret>>
    /\ UNCHANGED crawlVars

InitPLimit(its, lim) ==
    /\ items = its
    /\ limit = lim
    /\ pc = "loop"
    /\ idx = 1
    /\ startLog = <<>>
    /\ executing = <<>>
    /\ pstate = [i \in 1..Len(its) |-> "unstarted"]
    /\ reactions = [i \in 1..Len(its) |-> <<>>]
    /\ jobs = <<>>
    /\ agg = NoAgg
    /\ ret = [state |-> "pending", value |-> <<>>]
\* ------------------------------------------------- one allowedByRobots call
NoResponse == Response(FALSE, 0, <<>>, FALSE)

\* The lines a robots.txt of the model is made of
RobotsLinePool ==
    { <<"U","s","e","r","-","a","g","e","n","t",":"," ","*">>,
      <<"U","S","E","R","-","A","G","E","N","T",":"," ","b","o","t">>,
      <<"U","s","e","r","-","a","g","e","n","t",":"," ","x">>,
      <<"D","i","s","a","l","l","o","w",":"," ","/","p">>,
      <<"d","i","s","a","l","l","o","w",":","/">>,
      <<"D","i","s","a","l","l","o","w",":">>,
      <<>>,
      <<" ","#"," ","D","i","s","a","l","l","o","w",":"," ","/","p">>,
      <<"D","i","s","a","l","l","o","w"," ","/","p">>,
      <<" "," ","D","i","s","a","l","l","o","w"," ",":"," ","/","q"," ">> }

RobotsCallUrls ==
    { <<"h","t","t","p",":","/","/","a","/","p","/","x">>,
      <<"h","t","t","p",":","/","/","a","/","q","?","x","=","/","p">>,
      <<"h","t","t","p",":","/","/","a">>,
      <<"a","/","q">> }

RobotsAgents == { <<"B","o","t">>, <<"X">> }

RobotsStatuses == {200, 404}

RECURSIVE JoinLines(_, _)
JoinLines(lines, eol) ==
    IF lines = <<>> THEN <<>>
    ELSE IF Len(lines) = 1 THEN Head(lines)
    ELSE Head(lines) \o eol \o JoinLines(Tail(lines), eol)

SeqsUpTo(S, n) == UNION {[1..k -> S] : k \in 0..n}

IdleRobots ==
    /\ rcall = [url |-> <<>>, userAgent |-> <<>>]
    /\ rsite = [lines |-> <<>>, eol |-> <<"\n">>]
    /\ rphase = "idle"
    /\ rres = NoResponse
    /\ rret = Returns(TRUE)

InitRobots ==
    /\ rcall \in [url : RobotsCallUrls, userAgent : RobotsAgents]
    /\ rsite \in [lines : SeqsUpTo(RobotsLinePool, MaxLines), eol : {<<"\n">>, <<"\r", "\n">>}]
    /\ rphase = "called"
    /\ rres = NoResponse
    /\ rret = Returns(TRUE)
RobotsCall ==
    /\ rphase = "called"
    /\ IF ParseURL(rcall.url).ok
       THEN /\ rphase' = "fetching"
            /\ rret' = rret
       ELSE /\ rphase' = "returned"
            /\ rret' = AllowedByRobots(rcall.url, rcall.userAgent, NoResponse)
    /\ UNCHANGED <<rcall, rsite, rres>>
    /\ UNCHANGED <<plimitVars, crawlVars, sitemapVars, restVars, moreVars>>

RobotsRespond ==
    /\ rphase = "fetching"
    /\ \E res \in {Response(TRUE, 0, <<>>, FALSE)}
                  \cup {Response(FALSE, st, JoinLines(rsite.lines, rsite.eol), bf) :
                            st \in RobotsStatuses, bf \in BOOLEAN} :
          /\ rres' = res
          /\ rret' = AllowedByRobots(rcall.url, rcall.userAgent, res)
    /\ rphase' = "returned"
    /\ UNCHANGED <<rcall, rsite>>
    /\ UNCHANGED <<plimitVars, crawlVars, sitemapVars, restVars, moreVars>>

\* -------------------------------------------------------------- crawlBatch
\* Math.max(a, b): NaN when an argument is NaN
MathMax(a, b) == IF a.nan \/ b.nan THEN NaN ELSE Num(IF a.v >= b.v THEN a.v ELSE b.v)

CrawlResult(ok, status, url) == [ok |-> ok, status |-> status, url |-> url]

\* What the task body does at one of its steps: the results it pushes to out,
\* whether it issues the page fetch, and how its promise settles (none: it awaits)
Step(push, fetch, settle) == [push |-> push, fetch |-> fetch, settle |-> settle]

\* Mutant of CrawlCatch: the catch block records nothing
CrawlCatchSilent(url) == Step(<<>>, FALSE, "fulfilled")

\* Mutant of CrawlCatch: no catch block, the failure leaves the task body
CrawlCatchRethrows(url) == Step(<<>>, FALSE, "rejected")

\* catch { out.push({ ok: false, status: 0, url }); }
CrawlCatch(url) == Step(<<CrawlResult(FALSE, 0, url)>>, FALSE, "fulfilled")

\* Mutant of CrawlAfterRobots: the early return is missing, a disallowed URL is
\* recorded as 999 and fetched all the same
CrawlAfterRobotsNoReturn(url, allowed) ==
    IF ~ParseURL(url).ok THEN Step(<<CrawlResult(FALSE, 0, url)>>, FALSE, "fulfilled")
    ELSE Step(IF allowed THEN <<>> ELSE <<CrawlResult(TRUE, 999, url)>>, TRUE, "none")

\* The body once allowedByRobots has answered: a disallowed URL is recorded as
\* 999 and the body returns; otherwise fetch(url), which fails at once for a
\* URL that does not parse
CrawlAfterRobots(url, allowed) ==
    IF ~allowed THEN Step(<<CrawlResult(TRUE, 999, url)>>, FALSE, "fulfilled")
    ELSE IF ~ParseURL(url).ok THEN CrawlCatch(url)
    ELSE Step(<<>>, TRUE, "none")

\* The body once the page fetch has answered or failed
CrawlAfterPage(url, res) ==
    IF res.threw THEN CrawlCatch(url)
    ELSE Step(<<CrawlResult(ResOk(res.status), res.status, url)>>, FALSE, "fulfilled")

NewTask == [phase |-> "unstarted", robots |-> "none", verdict |-> "none",
            page |-> "none", net |-> <<>>]

\* What the robots.txt fetch of a task came to
RobotsHistory(res) == IF res.threw THEN "threw" ELSE "answered"

\* A network response is delivered by the event loop as a task of its own:
\* after the synchronous code has ended and the microtask queue has drained
CanDeliver == pc # "loop" /\ jobs = <<>>

\* Takes a step of task i's body
TakeStep(i, step, t) ==
    /\ out' = out \o step.push
    /\ tasks' = [tasks EXCEPT ![i] =
                   IF step.fetch
                   THEN [t EXCEPT !.phase = "page", !.net = Append(@, "page")]
                   ELSE [t EXCEPT !.phase = "done"]]
    /\ IF step.settle = "none"
       THEN UNCHANGED <<pstate, jobs, reactions>>
       ELSE Settle(i, step.settle)

CrawlRobotsTexts ==
    { <<>>,
      JoinLines(<< <<"U","s","e","r","-","a","g","e","n","t",":"," ","*">>,
                   <<"D","i","s","a","l","l","o","w",":"," ","/","p">> >>, <<"\n">>) }

CrawlRobotsResponses ==
    {Response(TRUE, 0, <<>>, FALSE), Response(FALSE, 404, <<>>, FALSE)}
    \cup {Response(FALSE, 200, text, FALSE) : text \in CrawlRobotsTexts}

\* The status a page answers with: any three-digit code a server chooses to send
PageStatuses == {200, 404, 999}

CrawlPageResponses ==
    {Response(TRUE, 0, <<>>, FALSE)} \cup {Response(FALSE, st, <<>>, FALSE) : st \in PageStatuses}

\* The robots.txt fetch of task i answers or fails; the body goes on
RobotsAnswered ==
    /\ CanDeliver
    /\ \E i \in 1..Len(items) : \E res \in CrawlRobotsResponses :
          /\ tasks[i].phase = "robots"
          /\ LET allowed == AllowedByRobots(items[i], userAgent, res).value
                 t == [tasks[i] EXCEPT !.robots = RobotsHistory(res),
                                       !.verdict = IF allowed THEN "allowed" ELSE "disallowed"]
             IN TakeStep(i, CrawlAfterRobots(items[i], allowed), t)
    /\ UNCHANGED <<items, limit, startLog, pc, idx, executing, agg, ret, userAgent, concurrency>>
    /\ UNCHANGED <<robotsVars, sitemapVars, restVars, moreVars>>

\* The body of a task whose URL did not parse resumes with the verdict true
RobotsSkipped ==
    /\ pc # "loop"
    /\ \E i \in 1..Len(items) :
          /\ tasks[i].phase = "checked"
          /\ LET allowed == AllowedByRobots(items[i], userAgent, NoResponse).value
                 t == [tasks[i] EXCEPT !.verdict = IF allowed THEN "allowed" ELSE "disallowed",
                                       !.page = "invalid"]
             IN TakeStep(i, CrawlAfterRobots(items[i], allowed), t)
    /\ UNCHANGED <<items, limit, startLog, pc, idx, executing, agg, ret, userAgent, concurrency>>
    /\ UNCHANGED <<robotsVars, sitemapVars, restVars, moreVars>>

\* The page fetch of task i answers or fails; the body ends
PageAnswered ==
    /\ CanDeliver
    /\ \E i \in 1..Len(items) : \E res \in CrawlPageResponses :
          /\ tasks[i].phase = "page"
          /\ LET t == [tasks[i] EXCEPT !.page = IF res.threw THEN "threw" ELSE "answered"]
             IN TakeStep(i, CrawlAfterPage(items[i], res), t)
    /\ UNCHANGED <<items, limit, startLog, pc, idx, executing, agg, ret, userAgent, concurrency>>
    /\ UNCHANGED <<robotsVars, sitemapVars, restVars, moreVars>>

CrawlUrls ==
    { <<"h","t","t","p",":","/","/","a","/","p","/","x">>,
      <<"h","t","t","p",":","/","/","a","/","q">>,
      <<"a","/","q">> }

IdleCrawl ==
    /\ userAgent = <<>>
    /\ concurrency = Num(1)
    /\ tasks = <<>>
    /\ out = <<>>

\* crawlBatch(urls, userAgent, concurrency) calls pLimit(urls, Math.max(1, concurrency), ...)
InitCrawl ==
    /\ userAgent = <<"B","o","t">>
    /\ concurrency \in {NaN} \cup {Num(c) : c \in 0..MaxConcurrency}
    /\ \E urls \in SeqsUpTo(CrawlUrls, MaxUrls) :
          /\ InitPLimit(urls, MathMax(Num(1), concurrency))
          /\ tasks = [i \in 1..Len(urls) |-> NewTask]
    /\ out = <<>>

\* ------------------------------------------------------ sitemap resolution
\* A sitemap document as the code sees it: whether its first 200 characters,
\* lower-cased, contain "<urlset" and "<sitemapindex", its root element, and
\* the loc of each url / sitemap entry under the root ("" for an entry without
\* a loc).
Xml(headUrlset, headIndex, root, locs) ==
    [headUrlset |-> headUrlset, headIndex |-> headIndex, root |-> root, locs |-> locs]

\* What XMLParser.parse gives for the entries under the root: nothing, the
\* entry itself when there is one, an array when there are several
ParsedEntries(locs) ==
    IF Len(locs) = 0 THEN [kind |-> "undefined", item |-> "", items |-> <<>>]
    ELSE IF Len(locs) = 1 THEN [kind |-> "object", item |-> locs[1], items |-> <<>>]
    ELSE [kind |-> "array", item |-> "", items |-> locs]

\* Mutant of AsList: a single entry is not wrapped into a list
AsListArrayOnly(entries) == entries.items

\* if (!x) return []; const list = Array.isArray(x) ? x : [x];
AsList(entries) ==
    IF entries.kind = "undefined" THEN <<>>
    ELSE IF entries.kind = "array" THEN entries.items
    ELSE <<entries.item>>

RECURSIVE DropFalsy(_)
DropFalsy(locs) ==
    IF locs = <<>> THEN <<>>
    ELSE IF Head(locs) = "" THEN DropFalsy(Tail(locs))
    ELSE <<Head(locs)>> \o DropFalsy(Tail(locs))

\* Mutant of UrlsetExtract: the entries are taken whatever the root is
UrlsetExtractAnyRoot(xml) == DropFalsy(AsList(ParsedEntries(xml.locs)))

\* UrlsetParser.extractUrls: doc?.urlset?.url, made a list, its locs, falsy ones dropped
UrlsetExtract(xml) ==
    IF xml.root # "urlset" THEN <<>>
    ELSE DropFalsy(AsList(ParsedEntries(xml.locs)))

\* The list IndexParser.extractUrls loops over: doc?.sitemapindex?.sitemap, made a list
IndexEntries(xml) ==
    IF xml.root # "sitemapindex" THEN <<>>
    ELSE AsList(ParsedEntries(xml.locs))

\* SitemapParserFactory.from: the parser chosen for a document
ParserFor(xml) ==
    IF xml.headUrlset THEN "Urlset"
    ELSE IF xml.headIndex THEN "Index"
    ELSE IF xml.root = "urlset" THEN "Urlset"
    ELSE IF xml.root = "sitemapindex" THEN "Index"
    ELSE "Urlset"

\* Mutant of FetchText: a failed fetch yields an empty document
FetchTextLenient(res) ==
    IF res.threw \/ ~ResOk(res.status) THEN Returns(Xml(FALSE, FALSE, "none", <<>>))
    ELSE Returns(res.text)

\* SitemapSource.fetchText: fails when fetch fails or the response is not 2xx
FetchText(res) ==
    IF res.threw THEN Throws
    ELSE IF ~ResOk(res.status) THEN Throws
    ELSE Returns(res.text)

\* Mutant of PushAll: the child's URLs that results already holds are left out
PushAllNew(results, childUrls) ==
    results \o SelectSeq(childUrls, LAMBDA u : u \notin Range(results))

\* results.push(...childUrls)
PushAll(results, childUrls) == results \o childUrls

Frame(list) == [list |-> list, pos |-> 1, results |-> <<>>]

SitemapUrls == {"s1", "s2", "s3"}
RootSitemap == "s1"

\* The responses a fetch of sitemap URL u can get
SitemapResponses(u) ==
    {Response(TRUE, 0, web[u], FALSE), Response(FALSE, 404, web[u], FALSE),
     Response(FALSE, 200, web[u], FALSE)}

\* extractUrls of the parser chosen for a fetched document returns a value to
\* its caller: the handler (stack empty), or the loop of the enclosing
\* IndexParser.extractUrls call, which pushes it to results and moves on
ReturnTo(stack, urls) ==
    IF stack = <<>>
    THEN /\ sstack' = <<>>
         /\ sresult' = urls
         /\ spc' = "done"
    ELSE /\ sstack' = [stack EXCEPT ![Len(stack)] =
                          [@ EXCEPT !.results = PushAll(@, urls), !.pos = @ + 1]]
         /\ sresult' = sresult
         /\ spc' = "running"

\* fetchText(u), SitemapParserFactory.from and the start of extractUrls, below
\* the calls of `stack`; a failed fetch throws through every call in progress
FetchAndParse(u, stack) ==
    /\ Len(fetchLog) < MaxFetches
    /\ \E res \in SitemapResponses(u) :
          LET got == FetchText(res) IN
          /\ fetchLog' = Append(fetchLog,
                 [url |-> u, ok |-> ~res.threw /\ ResOk(res.status)])
          /\ IF got.threw
             THEN /\ spc' = "failed"
                  /\ sstack' = <<>>
                  /\ sresult' = sresult
             ELSE IF ParserFor(got.value) = "Index"
                  THEN /\ sstack' = Append(stack, Frame(IndexEntries(got.value)))
                       /\ spc' = "running"
                       /\ sresult' = sresult
                  ELSE ReturnTo(stack, UrlsetExtract(got.value))

\* The handler: fetchText(sitemapUrl), from(xml), extractUrls(xml)
ResolveTop ==
    /\ spc = "start"
    /\ FetchAndParse(RootSitemap, <<>>)
    /\ UNCHANGED web
    /\ UNCHANGED <<plimitVars, crawlVars, robotsVars, restVars, moreVars>>

\* One pass of the loop of the innermost IndexParser.extractUrls call over an
\* entry with a loc: the child is fetched and resolved
ResolveChild ==
    /\ spc = "running"
    /\ LET f == sstack[Len(sstack)] IN
       /\ f.pos <= Len(f.list)
       /\ f.list[f.pos] # ""
       /\ FetchAndParse(f.list[f.pos], sstack)
    /\ UNCHANGED web
    /\ UNCHANGED <<plimitVars, crawlVars, robotsVars, restVars, moreVars>>

\* if (!childLoc) continue;
SkipChild ==
    /\ spc = "running"
    /\ LET f == sstack[Len(sstack)] IN
       /\ f.pos <= Len(f.list)
       /\ f.list[f.pos] = ""
       /\ sstack' = [sstack EXCEPT ![Len(sstack)] = [@ EXCEPT !.pos = @ + 1]]
    /\ UNCHANGED <<web, spc, fetchLog, sresult>>
    /\ UNCHANGED <<plimitVars, crawlVars, robotsVars, restVars, moreVars>>

\* return results; at the end of the loop
ReturnResults ==
    /\ spc = "running"
    /\ LET f == sstack[Len(sstack)] IN
       /\ f.pos > Len(f.list)
       /\ ReturnTo(SubSeq(sstack, 1, Len(sstack) - 1), f.results)
    /\ UNCHANGED <<web, fetchLog>>
    /\ UNCHANGED <<plimitVars, crawlVars, robotsVars, restVars, moreVars>>

PageLocs == {"a", "b"}

\* The documents of the model that are not an index
LeafDocs ==
    { Xml(TRUE, FALSE, "urlset", <<>>),
      Xml(TRUE, FALSE, "urlset", <<"a">>),
      Xml(TRUE, FALSE, "urlset", <<"a", "b">>),
      Xml(FALSE, FALSE, "urlset", <<"b", "", "a", "b">>),
      Xml(FALSE, FALSE, "html", <<"a">>),
      Xml(FALSE, TRUE, "html", <<"a">>) }

\* Index documents: every list of 1..MaxChildren child locs, a loc possibly
\* missing; one whose root comes after the first 200 characters; one whose
\* first 200 characters also contain "<urlset"
IndexDocs ==
    { Xml(FALSE, TRUE, "sitemapindex", locs) :
          locs \in SeqsUpTo(SitemapUrls \cup {""}, MaxChildren) \ {<<>>} }
    \cup { Xml(FALSE, FALSE, "sitemapindex", <<"s3", "s3">>),
           Xml(TRUE, TRUE, "sitemapindex", <<"s3">>) }

IdleSitemap ==
    /\ web = <<>>
    /\ spc = "idle"
    /\ sstack = <<>>
    /\ fetchLog = <<>>
    /\ sresult = <<>>

InitSitemap ==
    /\ web \in [SitemapUrls -> LeafDocs \cup IndexDocs]
    /\ web["s3"] \in LeafDocs
    /\ spc = "start"
    /\ sstack = <<>>
    /\ fetchLog = <<>>
    /\ sresult = <<>>

\* ----------------------------------------------------------- specifications
\* pLimit called directly, with tasks that complete or fail whenever they like
InitLimit ==
    /\ \E n \in 0..MaxItems : \E lim \in 1..MaxLimit :
          InitPLimit([i \in 1..n |-> i], Num(lim))
    /\ IdleCrawl
    /\ IdleRobots
    /\ IdleSitemap
    /\ IdleRest
    /\ IdleMore

LimitStart == PLimitIter("any") /\ UNCHANGED <<robotsVars, sitemapVars, restVars, moreVars>>
LimitAll == PLimitAll /\ UNCHANGED <<crawlVars, robotsVars, sitemapVars, restVars, moreVars>>
LimitJob == RunJob /\ UNCHANGED <<crawlVars, robotsVars, sitemapVars, restVars, moreVars>>
LimitSettle == TaskSettles /\ UNCHANGED <<robotsVars, sitemapVars, restVars, moreVars>>

NextLimit == LimitStart \/ LimitAll \/ LimitJob \/ LimitSettle

SpecLimit == InitLimit /\ [][NextLimit]_vars

\* crawlBatch
CrawlStart == PLimitIter("crawlBatch") /\ UNCHANGED <<robotsVars, sitemapVars, restVars, moreVars>>

InitCrawlBatch ==
    /\ InitCrawl
    /\ IdleRobots
    /\ IdleSitemap
    /\ IdleRest
    /\ IdleMore

NextCrawl == CrawlStart \/ LimitAll \/ LimitJob \/ RobotsAnswered \/ RobotsSkipped \/ PageAnswered

SpecCrawl == InitCrawlBatch /\ [][NextCrawl]_vars

\* one allowedByRobots call
InitRobotsCall ==
    /\ InitRobots
    /\ InitPLimit(<<>>, Num(1))
    /\ IdleCrawl
    /\ IdleSitemap
    /\ IdleRest
    /\ IdleMore

NextRobots == RobotsCall \/ RobotsRespond

SpecRobots == InitRobotsCall /\ [][NextRobots]_vars

\* one resolution of the sitemap RootSitemap
InitResolve ==
    /\ InitSitemap
    /\ InitPLimit(<<>>, Num(1))
    /\ IdleCrawl
    /\ IdleRobots
    /\ IdleRest
    /\ IdleMore

NextSitemap == ResolveTop \/ ResolveChild \/ SkipChild \/ ReturnResults

SpecSitemap == InitResolve /\ [][NextSitemap]_vars
\* ------------------------------------------------ QueueEnqueuer.enqueueMany
MaxQueueUrls == 5
MaxChunk == 3

\* The model puts nothing else in motion while one of the calls below runs
IdleCore ==
    /\ InitPLimit(<<>>, Num(1))
    /\ IdleCrawl
    /\ IdleRobots
    /\ IdleSitemap

\* Array.prototype.slice(from, to) for 0 <= from: to is clamped to the length
ArraySlice(xs, from, to) ==
    SubSeq(xs, from + 1, IF to > Len(xs) THEN Len(xs) ELSE to)

\* Mutant of Chunk: every chunk is cut from the start of the list
ChunkFromStart(urls, i, size) == ArraySlice(urls, 0, size)

\* urls.slice(i, i + chunkSize)
Chunk(urls, i, size) == ArraySlice(urls, i, i + size)

\* enqueueMany(urls); chunkSize is 1000 in the code, the model runs the loop
\* for every chunk size from 1 to MaxChunk
InitQueue ==
    /\ qurls \in SeqsUpTo({"u", "v"}, MaxQueueUrls)
    /\ qsize \in 1..MaxChunk
    /\ qi = 0
    /\ qsent = <<>>
    /\ qacked = 0
    /\ qpc = "loop"
    /\ qret = 0

\* for (...; i < urls.length; ...) { chunk = urls.slice(...); await sendBatch(chunk...)
QueueSend ==
    /\ qpc = "loop"
    /\ qi < Len(qurls)
    /\ qsent' = Append(qsent, Chunk(qurls, qi, qsize))
    /\ qpc' = "sending"
    /\ UNCHANGED <<qurls, qsize, qi, qacked, qret>>
    /\ UNCHANGED <<plimitVars, crawlVars, robotsVars, sitemapVars, runVars, gzVars, moreVars>>

\* the sendBatch promise resolves: i += chunkSize and the loop goes on
QueueSent ==
    /\ qpc = "sending"
    /\ qacked' = qacked + 1
    /\ qi' = qi + qsize
    /\ qpc' = "loop"
    /\ UNCHANGED <<qurls, qsize, qsent, qret>>
    /\ UNCHANGED <<plimitVars, crawlVars, robotsVars, sitemapVars, runVars, gzVars, moreVars>>

\* the sendBatch promise rejects: enqueueMany rejects
QueueSendFails ==
    /\ qpc = "sending"
    /\ qpc' = "threw"
    /\ UNCHANGED <<qurls, qsize, qi, qsent, qacked, qret>>
    /\ UNCHANGED <<plimitVars, crawlVars, robotsVars, sitemapVars, runVars, gzVars, moreVars>>

\* return urls.length;
QueueReturn ==
    /\ qpc = "loop"
    /\ qi >= Len(qurls)
    /\ qret' = Len(qurls)
    /\ qpc' = "returned"
    /\ UNCHANGED <<qurls, qsize, qi, qsent, qacked>>
    /\ UNCHANGED <<plimitVars, crawlVars, robotsVars, sitemapVars, runVars, gzVars, moreVars>>

InitEnqueue ==
    /\ InitQueue
    /\ IdleCore
    /\ IdleRun
    /\ IdleGz
    /\ IdleMore

NextQueue == QueueSend \/ QueueSent \/ QueueSendFails \/ QueueReturn

SpecQueue == InitEnqueue /\ [][NextQueue]_vars

\* ------------------------------------------------- one /crawl invocation
\* The handler with the default configuration and no CRAWL_QUEUE binding, as
\* far as the number of outbound fetches goes: URLs are counted, not named.
DefaultMaxUrlsPerRun == 40
MaxDiscovered == 41
MaxSitemapFetches == 3

\* limitList(xs, max).length: xs.slice(0, Math.max(0, max))
LimitLen(n, max) ==
    LET m == IF max > 0 THEN max ELSE 0 IN IF n < m THEN n ELSE m

\* The fetches the task body of crawlBatch issues for one URL: none when the
\* URL does not parse (new URL and fetch both throw), the robots.txt fetch
\* alone when the URL is disallowed, else the robots.txt and the page fetch
UrlFetches(outcome) ==
    IF outcome = "unparsable" THEN 0
    ELSE IF outcome = "disallowed" THEN 1
    ELSE 2

InitRun ==
    /\ hpc = "start"
    /\ hdiscovered = 0
    /\ hbatch = 0
    /\ hcrawled = 0
    /\ hfetches = 0

\* fetchText / extractUrls: the resolution fetched f sitemaps and returned n URLs
RunResolved ==
    /\ hpc = "start"
    /\ \E f \in 1..MaxSitemapFetches : hfetches' = hfetches + f
    /\ hdiscovered' \in 0..MaxDiscovered
    /\ hpc' = "limit"
    /\ UNCHANGED <<hbatch, hcrawled>>
    /\ UNCHANGED <<plimitVars, crawlVars, robotsVars, sitemapVars, queueVars, gzVars, moreVars>>

\* the f-th sitemap fetch failed: the handler fails
RunResolveFails ==
    /\ hpc = "start"
    /\ \E f \in 1..MaxSitemapFetches : hfetches' = hfetches + f
    /\ hpc' = "failed"
    /\ UNCHANGED <<hdiscovered, hbatch, hcrawled>>
    /\ UNCHANGED <<plimitVars, crawlVars, robotsVars, sitemapVars, queueVars, gzVars, moreVars>>

\* maxPerRun = parseInt(env.MAX_URLS_PER_RUN || "40", 10); batch = limitList(urls, maxPerRun);
\* enqueuer.enqueueMany(batch) -> crawlBatch(batch, ...)
RunDispatch ==
    /\ hpc = "limit"
    /\ hbatch' = LimitLen(hdiscovered, DefaultMaxUrlsPerRun)
    /\ hpc' = "crawling"
    /\ UNCHANGED <<hdiscovered, hcrawled, hfetches>>
    /\ UNCHANGED <<plimitVars, crawlVars, robotsVars, sitemapVars, queueVars, gzVars, moreVars>>

\* crawlBatch goes through one more URL of the batch
RunCrawlUrl ==
    /\ hpc = "crawling"
    /\ hcrawled < hbatch
    /\ \E outcome \in {"unparsable", "disallowed", "fetched"} :
          hfetches' = hfetches + UrlFetches(outcome)
    /\ hcrawled' = hcrawled + 1
    /\ UNCHANGED <<hpc, hdiscovered, hbatch>>
    /\ UNCHANGED <<plimitVars, crawlVars, robotsVars, sitemapVars, queueVars, gzVars, moreVars>>

\* crawlBatch returned: the handler answers
RunDone ==
    /\ hpc = "crawling"
    /\ hcrawled = hbatch
    /\ hpc' = "done"
    /\ UNCHANGED <<hdiscovered, hbatch, hcrawled, hfetches>>
    /\ UNCHANGED <<plimitVars, crawlVars, robotsVars, sitemapVars, queueVars, gzVars, moreVars>>

InitInvocation ==
    /\ InitRun
    /\ IdleCore
    /\ IdleQueue
    /\ IdleGz
    /\ IdleMore

NextRun == RunResolved \/ RunResolveFails \/ RunDispatch \/ RunCrawlUrl \/ RunDone

SpecRun == InitInvocation /\ [][NextRun]_vars

\* ------------------------------------------------- SitemapSource.fetchText
\* The call with its target URL and the body of the response: whether there is
\* one, whether its bytes are a gzip stream, the bytes read as text, and the
\* text a gzip stream inflates to
Body(present, gzip, bytes, inflated) ==
    [present |-> present, gzip |-> gzip, bytes |-> bytes, inflated |-> inflated]

NoBody == Body(FALSE, FALSE, "", "")

\* A response of fetch() for fetchText: the call throws, or yields a status, a
\* Content-Type header and a body
GzResponse(threw, status, contentType, body) ==
    [threw |-> threw, status |-> status, contentType |-> contentType, body |-> body]

\* What fetchText comes to: it throws or returns a text, having read the body
\* as text, through the DecompressionStream, or not at all
Outcome(threw, value, via) == [threw |-> threw, value |-> value, via |-> via]

\* Mutant of EndsWithGz: the suffix is compared case-sensitively
EndsWithGzExact(pathname) ==
    Len(pathname) >= 3
    /\ SubSeq(pathname, Len(pathname) - 2, Len(pathname)) = <<".", "g", "z">>

\* /\.gz$/i.test(pathname)
EndsWithGz(pathname) ==
    Len(pathname) >= 3
    /\ ToLowerCase(SubSeq(pathname, Len(pathname) - 2, Len(pathname))) = <<".", "g", "z">>

\* new Response(res.body.pipeThrough(new DecompressionStream("gzip"))).text():
\* fails on bytes that are no gzip stream
Gunzip(body) ==
    IF body.gzip THEN Outcome(FALSE, body.inflated, "gunzip")
    ELSE Outcome(TRUE, "", "gunzip")

\* res.text(): the bytes as they are, "" without a body
BodyText(body) == IF body.present THEN body.bytes ELSE ""

\* SitemapSource.fetchText(url), given the response fetch(url) gets
FetchTextOf(url, res) ==
    IF res.threw THEN Outcome(TRUE, "", "none")
    ELSE IF ~ResOk(res.status) THEN Outcome(TRUE, "", "none")
    ELSE IF EndsWithGz(ParseURL(url).pathname)
         THEN IF ~res.body.present THEN Outcome(FALSE, "", "none")
              ELSE Gunzip(res.body)
         ELSE Outcome(FALSE, BodyText(res.body), "text")

GzOrigin == <<"h","t","t","p",":","/","/","a">>

GzPathParts ==
    { <<>>,
      <<"/","s",".","x","m","l">>,
      <<"/","s",".","x","m","l",".","g","z">>,
      <<"/","s",".","G","Z">>,
      <<"/",".","g","Z">>,
      <<"/","g","z">>,
      <<"/","s",".","g","z","/">>,
      <<"/","s",".","g","z",".","x","m","l">>,
      <<"/","s",".","g","z","z">> }

GzQueryParts == { <<>>, <<"?","f","=","s",".","g","z">>, <<"?","x">> }

GzFragmentParts == { <<>>, <<"#",".","g","z">> }

\* The URL string made of the parts
GzUrl(parts) == GzOrigin \o parts.path \o parts.query \o parts.frag

GzBodies ==
    { NoBody,
      Body(TRUE, FALSE, "<urlset/>", ""),
      Body(TRUE, TRUE, "gzip(<urlset/>)", "<urlset/>") }

GzResponses ==
    {GzResponse(TRUE, 0, "", NoBody)}
    \cup {GzResponse(FALSE, st, ct, body) :
             st \in {200, 404}, ct \in {"application/xml", "application/gzip"},
             body \in GzBodies}

InitGz ==
    /\ gurl \in [path : GzPathParts, query : GzQueryParts, frag : GzFragmentParts]
    /\ gres = <<>>
    /\ gpc = "called"
    /\ gret = <<>>

\* const res = await fetch(url, ...) and the rest of fetchText
GzRespond ==
    /\ gpc = "called"
    /\ \E res \in GzResponses :
          /\ gres' = res
          /\ gret' = FetchTextOf(GzUrl(gurl), res)
    /\ gpc' = "returned"
    /\ UNCHANGED gurl
    /\ UNCHANGED <<plimitVars, crawlVars, robotsVars, sitemapVars, queueVars, runVars, moreVars>>

InitFetchText ==
    /\ InitGz
    /\ IdleCore
    /\ IdleQueue
    /\ IdleRun
    /\ IdleMore

NextGz == GzRespond

SpecGz == InitFetchText /\ [][NextGz]_vars

\* ------------------------------- allowedByRobots on user-agent and disallow lines
\* One allowedByRobots call for a robots.txt made of directive lines only
DirectiveLinePool ==
    { <<"U","s","e","r","-","a","g","e","n","t",":"," ","*">>,
      <<"U","S","E","R","-","A","G","E","N","T",":"," ","b","o","t">>,
      <<"U","s","e","r","-","a","g","e","n","t",":"," ","x">>,
      <<"D","i","s","a","l","l","o","w",":"," ","/","p">>,
      <<"d","i","s","a","l","l","o","w",":","/">> }

InitDirectives ==
    /\ rcall \in [url : RobotsCallUrls, userAgent : RobotsAgents]
    /\ rsite \in [lines : SeqsUpTo(DirectiveLinePool, MaxLines), eol : {<<"\n">>, <<"\r", "\n">>}]
    /\ rphase = "called"
    /\ rres = NoResponse
    /\ rret = Returns(TRUE)
    /\ InitPLimit(<<>>, Num(1))
    /\ IdleCrawl
    /\ IdleSitemap
    /\ IdleRest
    /\ IdleMore

SpecDirectives == InitDirectives /\ [][NextRobots]_vars

\* ------------------------------------------ /crawl: the batch that is dispatched
MaxResolved == 3

DigitChars == <<"0","1","2","3","4","5","6","7","8","9">>

IsDigit(c) == \E k \in 1..Len(DigitChars) : DigitChars[k] = c

DigitValue(c) == (CHOOSE k \in 1..Len(DigitChars) : DigitChars[k] = c) - 1

\* The longest prefix of s made of digits
RECURSIVE LeadingDigits(_)
LeadingDigits(s) ==
    IF s # <<>> /\ IsDigit(Head(s)) THEN <<Head(s)>> \o LeadingDigits(Tail(s)) ELSE <<>>

RECURSIVE DecimalValue(_, _)
DecimalValue(ds, acc) ==
    IF ds = <<>> THEN acc ELSE DecimalValue(Tail(ds), 10 * acc + DigitValue(Head(ds)))

\* parseInt(s, 10): leading white space, an optional sign, then the digits up
\* to the first other character; NaN when there is no digit
ParseInt(s) ==
    LET t == TrimStart(s)
        signed == t # <<>> /\ Head(t) \in {"-", "+"}
        ds == LeadingDigits(IF signed THEN Tail(t) ELSE t)
    IN IF ds = <<>> THEN NaN
       ELSE Num((IF signed /\ Head(t) = "-" THEN -1 ELSE 1) * DecimalValue(ds, 0))

\* env.X || "default": an unset or empty setting gives the default
OrDefault(setting, default) == IF setting = <<>> THEN default ELSE setting

\* Mutant of LimitList: the list is not cut
LimitListAll(xs, max) == xs

\* limitList(xs, max): xs.slice(0, Math.max(0, max)); slice takes NaN as 0
LimitList(xs, max) ==
    LET m == MathMax(Num(0), max)
    IN ArraySlice(xs, 0, IF m.nan THEN 0 ELSE m.v)

\* The MAX_URLS_PER_RUN settings of the model: unset, "0", "2", "-1", "abc"
MaxUrlsSettings ==
    { <<>>, <<"0">>, <<"2">>, <<"-","1">>, <<"a","b","c">> }

\* The handler once the resolution has returned urls
InitDispatch ==
    /\ denv \in MaxUrlsSettings
    /\ dqueue \in BOOLEAN
    /\ durls \in SeqsUpTo({"u", "v"}, MaxResolved)
    /\ dbatch = <<>>
    /\ dsink = <<>>
    /\ dresp = [discovered |-> 0, dispatched |-> 0]
    /\ dpc = "resolved"

\* maxPerRun = parseInt(env.MAX_URLS_PER_RUN || "40", 10); batch = limitList(urls, maxPerRun)
DispatchLimit ==
    /\ dpc = "resolved"
    /\ dbatch' = LimitList(durls, ParseInt(OrDefault(denv, <<"4","0">>)))
    /\ dpc' = "dispatching"
    /\ UNCHANGED <<denv, dqueue, durls, dsink, dresp>>
    /\ UNCHANGED <<plimitVars, crawlVars, robotsVars, sitemapVars, restVars, consumerVars>>

\* InlineEnqueuer.enqueueMany(batch): crawlBatch(batch, ...), returns batch.length;
\* the handler reports discovered: urls.length, dispatched: accepted
DispatchInline ==
    /\ dpc = "dispatching"
    /\ ~dqueue
    /\ dsink' = dbatch
    /\ dresp' = [discovered |-> Len(durls), dispatched |-> Len(dbatch)]
    /\ dpc' = "responded"
    /\ UNCHANGED <<denv, dqueue, durls, dbatch>>
    /\ UNCHANGED <<plimitVars, crawlVars, robotsVars, sitemapVars, restVars, consumerVars>>

\* QueueEnqueuer.enqueueMany(batch): the batch goes to sendBatch (in one chunk,
\* being shorter than chunkSize), returns batch.length
DispatchQueued ==
    /\ dpc = "dispatching"
    /\ dqueue
    /\ dsink' = dbatch
    /\ dresp' = [discovered |-> Len(durls), dispatched |-> Len(dbatch)]
    /\ dpc' = "responded"
    /\ UNCHANGED <<denv, dqueue, durls, dbatch>>
    /\ UNCHANGED <<plimitVars, crawlVars, robotsVars, sitemapVars, restVars, consumerVars>>

\* sendBatch rejects: the handler fails without a response
DispatchQueueFails ==
    /\ dpc = "dispatching"
    /\ dqueue
    /\ dbatch # <<>>
    /\ dsink' = dbatch
    /\ dpc' = "failed"
    /\ UNCHANGED <<denv, dqueue, durls, dbatch, dresp>>
    /\ UNCHANGED <<plimitVars, crawlVars, robotsVars, sitemapVars, restVars, consumerVars>>

InitCrawlDispatch ==
    /\ InitDispatch
    /\ IdleCore
    /\ IdleRest
    /\ IdleConsumer

NextDispatch == DispatchLimit \/ DispatchInline \/ DispatchQueued \/ DispatchQueueFails

SpecDispatch == InitCrawlDispatch /\ [][NextDispatch]_vars

\* --------------------------------- pLimit with one task that never completes
\* The task of item `hung` stays pending for ever; every other task completes
\* or fails at some point
InitHang ==
    /\ \E n \in 1..MaxItems : \E lim \in 2..MaxLimit :
          InitPLimit([i \in 1..n |-> i], Num(lim))
    /\ hung \in 1..Len(items)
    /\ cacks = <<>>
    /\ cpos = 0
    /\ cpc = "idle"
    /\ IdleCrawl
    /\ IdleRobots
    /\ IdleSitemap
    /\ IdleRest
    /\ IdleDispatch

\* fn(item) for the next item; the promise of the hanging task is pending
HangStart == LimitStart /\ pstate'[hung] \in {"unstarted", "pending"}

\* A task other than the hanging one completes or fails
HangSettle == LimitSettle /\ pstate'[hung] = pstate[hung]

NextHang == HangStart \/ LimitAll \/ LimitJob \/ HangSettle

\* The event loop runs synchronous code and queued jobs to the end, and every
\* task but the hanging one settles
SpecHang ==
    /\ InitHang
    /\ [][NextHang]_vars
    /\ WF_vars(HangStart)
    /\ WF_vars(LimitAll)
    /\ WF_vars(LimitJob)
    /\ WF_vars(HangSettle)

\* ------------------------------------------------------- the queue consumer
\* Mutant of AckMessage: a message whose result is not ok is left unacknowledged
AckMessageIfOk(acks, k, results) ==
    IF results[k].ok THEN [acks EXCEPT ![k] = @ + 1] ELSE acks

\* msg.ack() for message k, whatever the results are
AckMessage(acks, k, results) == [acks EXCEPT ![k] = @ + 1]

\* queue(batch, env): urls = batch.messages.map((m) => m.body); crawlBatch(urls, ...)
InitConsumer ==
    /\ InitCrawl
    /\ hung = 0
    /\ cacks = [k \in 1..Len(items) |-> 0]
    /\ cpos = 1
    /\ cpc = "crawling"
    /\ IdleRobots
    /\ IdleSitemap
    /\ IdleRest
    /\ IdleDispatch

\* for (const msg of batch.messages) msg.ack(); once crawlBatch has returned
ConsumerAck ==
    /\ cpc \in {"crawling", "acking"}
    /\ ret.state = "returned"
    /\ cpos <= Len(cacks)
    /\ cacks' = AckMessage(cacks, cpos, ret.value)
    /\ cpos' = cpos + 1
    /\ cpc' = "acking"
    /\ UNCHANGED hung
    /\ UNCHANGED <<plimitVars, crawlVars, robotsVars, sitemapVars, restVars, dispatchVars>>

\* the handler returns after the loop
ConsumerReturn ==
    /\ cpc \in {"crawling", "acking"}
    /\ ret.state = "returned"
    /\ cpos > Len(cacks)
    /\ cpc' = "returned"
    /\ UNCHANGED <<hung, cacks, cpos>>
    /\ UNCHANGED <<plimitVars, crawlVars, robotsVars, sitemapVars, restVars, dispatchVars>>

NextConsumer ==
    CrawlStart \/ LimitAll \/ LimitJob \/ RobotsAnswered \/ RobotsSkipped \/ PageAnswered
    \/ ConsumerAck \/ ConsumerReturn

SpecConsumer == InitConsumer /\ [][NextConsumer]_vars

\* ------------------------------------------------------------------ claims
\* Tasks started and not yet completed
Running == {i \in 1..Len(items) : pstate[i] = "pending"}

\* C1: at every point of a pLimit(items, L, task) call with L >= 1, at most L
\* tasks have been started and have not yet completed.
C1_AtMostLimitRunning == Cardinality(Running) <= limit.v

\* C1 witness: L >= 2 tasks are running at once while a further item waits
C1_LimitReached ==
    /\ limit.v >= 2
    /\ Cardinality(Running) = limit.v
    /\ pc = "awaitRace"
    /\ idx <= Len(items)

\* C3 (as claimed): pLimit starts every item and returns only after every
\* started task has completed, also when a task fails.
C3_ReturnsAfterAllCompleted ==
    pc \in {"resolved", "rejected"} =>
        \A i \in 1..Len(items) : Settled(pstate[i])

\* C4 (as claimed): tasks are started in input order, and an item waits only
\* while every slot is taken: once the microtask queue has drained, an item
\* that is still unstarted has L tasks running before it.
C4_InputOrderNoIdleSlot ==
    /\ \A a, b \in 1..Len(startLog) : a < b => startLog[a] < startLog[b]
    /\ (pc # "loop" /\ jobs = <<>> /\ idx <= Len(items)) =>
           Cardinality(Running) >= limit.v
\* How many elements of sequence s satisfy s[k] = x
Count(s, x) == Cardinality({k \in 1..Len(s) : s[k] = x})

ResultUrls(results) == [k \in 1..Len(results) |-> results[k].url]

\* C2: the list crawlBatch returns holds exactly one CrawlResult per input
\* element: the result urls and the input urls are the same multiset.
C2_OneResultPerUrl ==
    ret.state = "returned" =>
        /\ Len(ret.value) = Len(items)
        /\ \A u \in Range(items) \cup Range(ResultUrls(ret.value)) :
               Count(ResultUrls(ret.value), u) = Count(items, u)

\* C2 witness: crawlBatch has returned for a list that repeats a URL
C2_ReturnedWithRepeats ==
    /\ ret.state = "returned"
    /\ Len(items) >= 2
    /\ items[1] = items[2]

\* C5: a transport failure never aborts the batch: no task body fails, neither
\* pLimit nor crawlBatch fails, a failed page fetch is recorded as
\* {ok: false, status: 0} for its URL, and when crawlBatch returns every
\* element has been started and has run to its result.
C5_FetchFailureIsLocal ==
    /\ ret.state # "threw"
    /\ pc # "rejected"
    /\ \A i \in 1..Len(items) :
          /\ pstate[i] # "rejected"
          /\ (tasks[i].page = "threw" =>
                 Count(out, CrawlResult(FALSE, 0, items[i])) >= 1)
          /\ (ret.state = "returned" => tasks[i].phase = "done")
    /\ \A u \in Range(items) :
          Count(out, CrawlResult(FALSE, 0, u)) =
              Cardinality({i \in 1..Len(items) :
                  items[i] = u /\ tasks[i].page \in {"threw", "invalid"}})

\* C5 witness: with one slot, the first URL's robots.txt fetch and page fetch
\* both failed, and the second URL was still fetched and crawlBatch returned
C5_FailedThenNextCrawled ==
    /\ ret.state = "returned"
    /\ limit = Num(1)
    /\ Len(items) >= 2
    /\ tasks[1].robots = "threw"
    /\ tasks[1].page = "threw"
    /\ tasks[2].page = "answered"

\* C6: the robots check of an element precedes any fetch of its URL, and an
\* element the check disallows gets {ok: true, status: 999} and no page fetch.
C6_RobotsBeforeFetch ==
    /\ \A i \in 1..Len(items) :
          /\ (Count(tasks[i].net, "page") >= 1 =>
                 /\ tasks[i].verdict = "allowed"
                 /\ tasks[i].net = <<"robots", "page">>)
          /\ (tasks[i].verdict = "disallowed" =>
                 /\ Count(tasks[i].net, "page") = 0
                 /\ tasks[i].page = "none"
                 /\ tasks[i].phase = "done")
    /\ \A u \in Range(items) :
          Count(out, CrawlResult(TRUE, 999, u)) =
              Cardinality({i \in 1..Len(items) :
                  items[i] = u /\ tasks[i].verdict = "disallowed"})

\* C6 witness: one element was skipped by robots.txt, another one was fetched
C6_SkippedAndFetched ==
    \E i, j \in 1..Len(items) :
        /\ tasks[i].verdict = "disallowed"
        /\ tasks[j].page = "answered"

\* The directive a raw line of robots.txt carries, read off the line itself
LineDirective(line) ==
    LET t == Trim(line)
        i == IndexOf(t, <<":">>)
    IN IF t = <<>> \/ t[1] = "#" \/ i = -1
       THEN [key |-> <<>>, value |-> <<>>]
       ELSE [key |-> ToLowerCase(Trim(SubSeq(t, 1, i))),
             value |-> Trim(SubSeq(t, i + 2, Len(t)))]

IsUserAgentLine(line) == LineDirective(line).key = <<"u","s","e","r","-","a","g","e","n","t">>
IsDisallowLine(line) == LineDirective(line).key = <<"d","i","s","a","l","l","o","w">>

\* The value of a User-agent line applies to the agent
Applies(value, ua) == value = <<"*">> \/ ToLowerCase(value) = ToLowerCase(ua)

\* Line j is a Disallow line read while an applicable User-agent block is
\* active: the nearest User-agent line before it applies to the agent
InApplicableBlock(lines, j, ua) ==
    \E i \in 1..(j - 1) :
        /\ IsUserAgentLine(lines[i])
        /\ Applies(LineDirective(lines[i]).value, ua)
        /\ \A m \in (i + 1)..(j - 1) : ~IsUserAgentLine(lines[m])

\* The path starts with a non-empty Disallow value other than "/" of an
\* applicable block
PathDisallowed(lines, pathname, ua) ==
    \E j \in 1..Len(lines) :
        /\ IsDisallowLine(lines[j])
        /\ InApplicableBlock(lines, j, ua)
        /\ LineDirective(lines[j]).value # <<>>
        /\ LineDirective(lines[j]).value # <<"/">>
        /\ StartsWith(pathname, LineDirective(lines[j]).value)

\* C7: allowedByRobots never raises, and returns false only if robots.txt was
\* fetched with a 2xx response and the URL's path starts with a non-empty
\* Disallow value other than "/" read in an applicable User-agent block.
C7_FalseOnlyIfDisallowed ==
    rphase = "returned" =>
        /\ ~rret.threw
        /\ (rret.value = FALSE =>
               /\ ParseURL(rcall.url).ok
               /\ ~rres.threw
               /\ ResOk(rres.status)
               /\ ~rres.bodyFails
               /\ PathDisallowed(rsite.lines, ParseURL(rcall.url).pathname, rcall.userAgent))

\* C7 witness: the call returned false for a robots.txt whose applicable
\* block comes after a block of another agent
C7_Disallowed ==
    /\ rphase = "returned"
    /\ rret.value = FALSE
    /\ Len(rsite.lines) >= 3
    /\ IsUserAgentLine(rsite.lines[1])
    /\ ~Applies(LineDirective(rsite.lines[1]).value, rcall.userAgent)
\* The entries of a document that carry a loc, in document order
LocsOf(xml, root) ==
    IF xml.root = root THEN SelectSeq(xml.locs, LAMBDA l : l # "") ELSE <<>>

\* The URL list of the sitemap at u: for a URL list its locs, for an index the
\* lists of its children one after the other, each child expanded in place
RECURSIVE UrlListOf(_)
RECURSIVE ConcatChildren(_)
UrlListOf(u) ==
    IF ParserFor(web[u]) = "Index"
    THEN ConcatChildren(LocsOf(web[u], "sitemapindex"))
    ELSE LocsOf(web[u], "urlset")

ConcatChildren(children) ==
    IF children = <<>> THEN <<>>
    ELSE UrlListOf(Head(children)) \o ConcatChildren(Tail(children))

FetchedUrls == [k \in 1..Len(fetchLog) |-> fetchLog[k].url]

\* C9 (as claimed): the traversal is guarded: a sitemap URL already fetched in
\* this resolution is not fetched again, or else the nesting of the traversal
\* stays within the maximum depth.
C9_TraversalGuarded ==
    \/ \A u \in SitemapUrls : Count(FetchedUrls, u) <= 1
    \/ Len(sstack) <= GuardDepth

\* C10: a failed sitemap fetch, at any depth, fails the whole resolution: it
\* is the last fetch made, no call stays in progress and no list is returned.
C10_FetchFailureAborts ==
    /\ \A k \in 1..Len(fetchLog) :
          ~fetchLog[k].ok => (k = Len(fetchLog) /\ spc = "failed")
    /\ spc = "failed" => (sstack = <<>> /\ sresult = <<>>)

\* C10 witness: the fetch of a grandchild failed while the root index still
\* had a second child to go through
C10_GrandchildFailed ==
    /\ spc = "failed"
    /\ ParserFor(web["s1"]) = "Index"
    /\ web["s1"].locs = <<"s2", "s3">>
    /\ ParserFor(web["s2"]) = "Index"
    /\ Len(fetchLog) = 3
    /\ FetchedUrls[2] = "s2"

\* The classification C11 describes: the index marker in the inspected prefix
\* first, then the urlset marker, then the parsed root, else a URL list
MarkerClass(xml) ==
    IF xml.headIndex THEN "Index"
    ELSE IF xml.headUrlset THEN "Urlset"
    ELSE IF xml.root = "sitemapindex" THEN "Index"
    ELSE "Urlset"

\* The sitemap URLs whose document has been fetched successfully
FetchedOk == {fetchLog[k].url : k \in {j \in 1..Len(fetchLog) : fetchLog[j].ok}}

\* C11 (as claimed): every fetched document is given the parser of the
\* classification that consults the index marker first.
C11_IndexMarkerFirst ==
    \A u \in FetchedOk : ParserFor(web[u]) = MarkerClass(web[u])

UnknownRoot(xml) == xml.root \notin {"urlset", "sitemapindex"}

\* The child locs the call of frame f has gone through
Passed(f) == SelectSeq(SubSeq(f.list, 1, f.pos - 1), LAMBDA l : l # "")

RECURSIVE Flatten(_)
Flatten(batches) ==
    IF batches = <<>> THEN <<>> ELSE Head(batches) \o Flatten(Tail(batches))

\* ceil(n / c) for c >= 1
CeilDiv(n, c) == (n + c - 1) \div c

\* C13: enqueueMany sends the list in ceil(n/c) batches, one after the other:
\* every batch is non-empty and has at most c messages, every batch but the
\* last one has exactly c, the batches sent so far make up a prefix of the
\* list, and when the call returns they make up the whole list and the value
\* returned is n.
C13_ChunksCoverList ==
    /\ \A k \in 1..Len(qsent) :
          /\ qsent[k] # <<>>
          /\ Len(qsent[k]) <= qsize
          /\ k < Len(qsent) => Len(qsent[k]) = qsize
    /\ Len(qsent) <= qacked + 1
    /\ Len(Flatten(qsent)) <= Len(qurls)
    /\ Flatten(qsent) = SubSeq(qurls, 1, Len(Flatten(qsent)))
    /\ qpc = "returned" =>
          /\ Flatten(qsent) = qurls
          /\ Len(qsent) = CeilDiv(Len(qurls), qsize)
          /\ qacked = Len(qsent)
          /\ qret = Len(qurls)

\* C13 witness: a list that is not a multiple of the chunk size went out in
\* three batches, the last one shorter
C13_ThreeBatchesLastShort ==
    /\ qpc = "returned"
    /\ qsize = 2
    /\ Len(qurls) = 5
    /\ Len(qsent) = 3
    /\ Len(qsent[3]) = 1

\* The subrequest limit of the platform the README cites
SubrequestLimit == 50

\* C14 (as claimed): one /crawl invocation with the default configuration
\* issues fewer than 50 outbound fetches, sitemap, robots.txt and page
\* fetches together.
C14_FewerThanFiftyFetches == hfetches < SubrequestLimit

\* How many results of out have the status st
WithStatus(st) == Cardinality({k \in 1..Len(out) : out[k].status = st})

\* The task bodies that have ended
Ended == {i \in 1..Len(items) : tasks[i].phase = "done"}

SkippedByRobots == {i \in Ended : tasks[i].verdict = "disallowed"}

FetchFailed ==
    {i \in Ended : tasks[i].verdict = "allowed" /\ tasks[i].page \in {"threw", "invalid"}}

\* C15 (as claimed): a result has status 999 exactly when its URL was skipped
\* by the robots check, and status 0 exactly when its fetch failed: there are
\* as many results of status 999 as skipped URLs and as many of status 0 as
\* failed fetches.
C15_SentinelsDistinct ==
    /\ WithStatus(999) = Cardinality(SkippedByRobots)
    /\ WithStatus(0) = Cardinality(FetchFailed)

\* The path parts of the model that end in ".gz", whatever the case
GzSuffixedPaths ==
    { <<"/","s",".","x","m","l",".","g","z">>,
      <<"/","s",".","G","Z">>,
      <<"/",".","g","Z">> }

\* C16: fetchText puts the body through gzip decompression exactly when the
\* path of the URL ends in ".gz" in any case, whatever the query, the fragment
\* and the headers are; a body of another target is returned as text
\* unchanged; a ".gz" target without a body gives ""; and a failed fetch or a
\* non-2xx response fails with no decompression attempted.
C16_GzipIffPathSuffix ==
    gpc = "returned" =>
        IF gres.threw \/ ~(gres.status >= 200 /\ gres.status <= 299)
        THEN gret.threw /\ gret.via = "none"
        ELSE IF gurl.path \in GzSuffixedPaths
             THEN IF gres.body.present
                  THEN /\ gret.via = "gunzip"
                       /\ gres.body.gzip => gret = Outcome(FALSE, gres.body.inflated, "gunzip")
                  ELSE gret = Outcome(FALSE, "", "none")
             ELSE gret = Outcome(FALSE, gres.body.bytes, "text")

\* C16 witness: a gzip body of a target whose path ends in ".GZ" and whose
\* query is not empty has been inflated
C16_UpperCaseSuffixInflated ==
    /\ gpc = "returned"
    /\ gurl.path = <<"/","s",".","G","Z">>
    /\ gurl.query # <<>>
    /\ gres.body.gzip
    /\ gret = Outcome(FALSE, "<urlset/>", "gunzip")

\* The response of the call carried the text of robots.txt
RobotsTextRead ==
    /\ rphase = "returned"
    /\ ParseURL(rcall.url).ok
    /\ ~rres.threw
    /\ rres.status = 200
    /\ ~rres.bodyFails

\* The rules the two-state machine of C17 collects: the non-empty value of
\* every disallow line whose nearest earlier user-agent line applies to the
\* agent, in line order
Collected(lines, ua) ==
    LET dirs == [j \in 1..Len(lines) |-> LineDirective(lines[j])]
        isAgent == [j \in 1..Len(lines) |->
                       dirs[j].key = <<"u","s","e","r","-","a","g","e","n","t">>]
        active == [j \in 1..Len(lines) |->
                      \E i \in 1..(j - 1) :
                          /\ isAgent[i]
                          /\ Applies(dirs[i].value, ua)
                          /\ \A m \in (i + 1)..(j - 1) : ~isAgent[m]]
        at == SelectSeq([j \in 1..Len(lines) |-> j],
                        LAMBDA j : /\ dirs[j].key = <<"d","i","s","a","l","l","o","w">>
                                   /\ dirs[j].value # <<>>
                                   /\ active[j])
    IN [n \in 1..Len(at) |-> dirs[at[n]].value]

\* C17: the rules the interpreter collects from a robots.txt are the non-empty
\* values of the disallow lines at which the flag is active, the flag being
\* what the most recent user-agent line set it to (inactive before the first
\* one); no other line changes the flag or the rules, and keys are matched
\* whatever their case.
C17_TwoStateMachine ==
    RobotsTextRead =>
        RobotsRules(rres.text, rcall.userAgent) = Collected(rsite.lines, rcall.userAgent)

\* C17 witness: a user-agent line that does not apply closed the block a
\* wildcard line had opened, and the disallow line after it was not collected
C17_BlockClosed ==
    /\ RobotsTextRead
    /\ Len(rsite.lines) = 3
    /\ IsUserAgentLine(rsite.lines[1])
    /\ LineDirective(rsite.lines[1]).value = <<"*">>
    /\ IsUserAgentLine(rsite.lines[2])
    /\ ~Applies(LineDirective(rsite.lines[2]).value, rcall.userAgent)
    /\ rsite.lines[3] = <<"D","i","s","a","l","l","o","w",":"," ","/","p">>
    /\ StartsWith(ParseURL(rcall.url).pathname, <<"/","p">>)
    /\ rret.value = TRUE

\* lines with a line added after the first p ones
InsertLine(lines, p, line) ==
    SubSeq(lines, 1, p) \o <<line>> \o SubSeq(lines, p + 1, Len(lines))

RootDisallowLine == <<"D","i","s","a","l","l","o","w",":"," ","/">>

\* C18: a Disallow value that is exactly "/" blocks nothing: when every
\* collected value is "/" the call returns true, and the call returns the same
\* verdict for the robots.txt with a "Disallow: /" line added at any place.
C18_RootDisallowIgnored ==
    RobotsTextRead =>
        /\ (LET rules == Collected(rsite.lines, rcall.userAgent)
            IN \A j \in 1..Len(rules) : rules[j] = <<"/">>)
               => rret.value = TRUE
        /\ \A p \in 0..Len(rsite.lines) :
               AllowedByRobots(rcall.url, rcall.userAgent,
                   [rres EXCEPT !.text =
                       JoinLines(InsertLine(rsite.lines, p, RootDisallowLine), rsite.eol)])
               = rret

\* C18 witness: the only rule collected for the agent is "/", and a URL of the
\* origin with a longer path was allowed
C18_OnlyRootCollected ==
    /\ RobotsTextRead
    /\ Collected(rsite.lines, rcall.userAgent) = << <<"/">> >>
    /\ Len(ParseURL(rcall.url).pathname) > 1
    /\ rret.value = TRUE

\* The elements whose URL parses and whose task body has been started
StartedParsable ==
    {i \in 1..Len(items) : ParseURL(items[i]).ok /\ tasks[i].phase # "unstarted"}

\* C19: nothing is cached and nothing is retried: an element with a parsable
\* URL causes exactly one robots.txt request as soon as its task starts, one
\* per element also for elements of the same origin, and at most one request to
\* the URL itself, after the robots.txt request; an element whose URL does not
\* parse causes no request.
C19_NoCacheNoRetry ==
    \A i \in 1..Len(items) :
        /\ Count(tasks[i].net, "robots") = (IF i \in StartedParsable THEN 1 ELSE 0)
        /\ Count(tasks[i].net, "page") <= 1
        /\ tasks[i].phase = "done" /\ tasks[i].page \in {"threw", "answered"}
              => tasks[i].net = <<"robots", "page">>

\* C19 witness: two elements of the same origin, each with its own robots.txt
\* request, the first one failed, and each with one page request
C19_SameOriginTwice ==
    /\ ret.state = "returned"
    /\ Len(items) = 2
    /\ StartedParsable = {1, 2}
    /\ ParseURL(items[1]).origin = ParseURL(items[2]).origin
    /\ tasks[1].robots = "threw"
    /\ tasks[1].net = <<"robots", "page">>
    /\ tasks[2].net = <<"robots", "page">>

\* The limit C20 states for a concurrency argument: the argument when it is
\* an integer >= 1, else 1
EffectiveLimit(c) == IF c.nan \/ c.v < 1 THEN 1 ELSE c.v

\* C20 (as claimed): whatever the concurrency argument of crawlBatch is, the
\* number of URLs being processed at once never exceeds the effective limit.
C20_WithinEffectiveLimit == Cardinality(Running) <= EffectiveLimit(concurrency)

\* The number each MAX_URLS_PER_RUN setting of the model stands for, 40 being
\* the default of an unset one; "abc" stands for none
SettingIsNumber == denv # <<"a","b","c">>

SettingNumber ==
    IF denv = <<"0">> THEN 0
    ELSE IF denv = <<"2">> THEN 2
    ELSE IF denv = <<"-","1">> THEN -1
    ELSE DefaultMaxUrlsPerRun

\* The first n elements of xs, all of them when xs is shorter
Prefix(xs, n) == SubSeq(xs, 1, IF n < Len(xs) THEN n ELSE Len(xs))

\* The cap of the batch: the setting when it is a number >= 0, else 0
EffectiveCap == IF SettingIsNumber /\ SettingNumber > 0 THEN SettingNumber ELSE 0

\* C21: the batch dispatched by /crawl is the first min(discovered, cap) URLs
\* of the resolved list, the cap being MAX_URLS_PER_RUN when that is a number
\* >= 0 and 0 when it is negative or not a number; dispatched is the length of
\* the batch and never exceeds the cap, discovered is the length of the
\* resolved list, and nothing but the batch is crawled or enqueued.
C21_BatchIsCappedPrefix ==
    /\ dpc \in {"dispatching", "responded", "failed"} => dbatch = Prefix(durls, EffectiveCap)
    /\ dsink \in {<<>>, dbatch}
    /\ dpc = "responded" =>
          /\ dsink = dbatch
          /\ dresp.dispatched = Len(dbatch)
          /\ dresp.dispatched <= EffectiveCap
          /\ dresp.discovered = Len(durls)

\* C21 witness: a list of three URLs resolved with MAX_URLS_PER_RUN = 2: two
\* dispatched, three discovered
C21_CutToTwo ==
    /\ dpc = "responded"
    /\ denv = <<"2">>
    /\ Len(durls) = 3
    /\ dsink = SubSeq(durls, 1, 2)
    /\ dresp = [discovered |-> 3, dispatched |-> 2]

\* C21 (as claimed): moreover the dispatched count never exceeds
\* MAX_URLS_PER_RUN itself.
C21_DispatchedWithinSetting ==
    /\ C21_BatchIsCappedPrefix
    /\ (dpc = "responded" /\ SettingIsNumber) => dresp.dispatched <= SettingNumber

\* Every item but the hanging one has been started and has completed
OthersCompleted == \A i \in 1..Len(items) : i # hung => Settled(pstate[i])

\* C22 (as claimed): with L >= 2 and one task that never completes, every
\* other item is eventually started and completed, and the pLimit call never
\* returns.
C22_OthersFinishCallNeverEnds ==
    /\ <>OthersCompleted
    /\ [](pc \notin {"resolved", "rejected"})

\* C23: the queue consumer acknowledges no message twice and none before
\* crawlBatch has returned with a result for every URL of the batch; crawlBatch
\* never fails, and once the handler has returned every message has been
\* acknowledged exactly once, whatever the results are.
C23_AckAllAfterCrawl ==
    /\ ret.state # "threw"
    /\ \A k \in 1..Len(cacks) :
          /\ cacks[k] <= 1
          /\ cacks[k] = 1 =>
                /\ ret.state = "returned"
                /\ Len(out) = Len(items)
                /\ \A i \in 1..Len(items) : tasks[i].phase = "done"
          /\ cpc = "returned" => cacks[k] = 1

\* C23 witness: the handler has returned for a batch of two messages, one
\* URL skipped by robots.txt and one whose fetch failed
C23_AckedFailedAndSkipped ==
    /\ cpc = "returned"
    /\ Len(cacks) = 2
    /\ \E a, b \in 1..Len(out) : out[a].status = 999 /\ out[b].status = 0
====
